---- MODULE Spec2Model ----
(***************************************************************************)
(* School Community Address Finder (src/app.py): one Streamlit script run  *)
(* as a state machine.  A run loads the manifest and the school list,      *)
(* left-joins them on a string-cast key, lets the user select a school,    *)
(* loads that school's address shards, waits for drawn shapes, keeps the   *)
(* addresses inside any shape and parses them into unit-expanded rows.     *)
(*                                                                         *)
(* Representation.  A Python str handled character by character (the unit  *)
(* token, the assembled street) is a sequence of atoms: one-character      *)
(* strings, whole words, and " " for a blank.  A value whose Python type   *)
(* matters (a cell that may be a str or NaN) is a record with its type in  *)
(* field t.  A DataFrame is the sequence of its rows.                      *)
(***************************************************************************)
EXTENDS Integers, Sequences, FiniteSets, TLC

VARIABLES
  \* the world outside the script
  schools,             \* schools.csv
  manifest,            \* _manifest.csv
  shards,              \* the rows of each Parquet shard, by path
  map_data,            \* what the map component returns: the shapes drawn
  tagger,              \* usaddress.tag's outcome for each address line
  \* the script run
  pc,                  \* the step the run is at
  school_data_merged, site_selected, file_paths_json,
  cache,               \* st.cache_data of load_address_data, by argument
  load_ret,            \* the object load_address_data returned
  load_fail,           \* per shard read of that call: whether it raised
  addresses_df, features, filtered_df, parsed_df,
  msgs,                \* st.error / st.warning / st.info calls of the run
  exc                  \* the exception that ended the run, or "none"

env == <<schools, manifest, shards, map_data, tagger>>
run == <<pc, school_data_merged, site_selected, file_paths_json, load_ret,
         load_fail, addresses_df, features, filtered_df, parsed_df, msgs, exc>>
vars == <<env, run, cache>>

(***************************************************************************)
(* Bounds of the checked instances.                                        *)
(***************************************************************************)
MaxUnitLen == 4
MaxSites == 2
MaxManifest == 2
MaxPaths == 3
MaxRecords == 2
MaxShapes == 2

(***************************************************************************)
(* Python values.                                                          *)
(***************************************************************************)
PyStr(s) == [t |-> "str", v |-> s]
PyInt(s) == [t |-> "int", v |-> s]
PyFloat(s) == [t |-> "float", v |-> s]
NaN == [t |-> "float", v |-> "nan"]
None == [t |-> "NoneType", v |-> "None"]

isinstance_str(x) == x.t = "str"

\* The en dash U+2013 as an atom of a unit token.
EnDash == "EN"
Hyphen == "-"
Digits == {"0", "1", "2", "3", "4", "5", "6", "7", "8", "9"}

DigitVal(c) ==
  CASE c = "0" -> 0 [] c = "1" -> 1 [] c = "2" -> 2 [] c = "3" -> 3
    [] c = "4" -> 4 [] c = "5" -> 5 [] c = "6" -> 6 [] c = "7" -> 7
    [] c = "8" -> 8 [] c = "9" -> 9

DigitChar(n) == CHOOSE c \in Digits : DigitVal(c) = n

\* str.isdigit(): non-empty and every character a digit.
isdigit(s) == Len(s) > 0 /\ \A i \in 1..Len(s) : s[i] \in Digits

\* sub in s, for a one-character sub.
contains_char(s, c) == \E i \in 1..Len(s) : s[i] = c

\* s.replace(old, new), for one-character old and new.
replace(s, old, new) == [i \in 1..Len(s) |-> IF s[i] = old THEN new ELSE s[i]]

\* s.split(sep): the pieces between every occurrence of sep, empty ones kept.
RECURSIVE split(_, _)
split(s, sep) ==
  IF ~contains_char(s, sep) THEN <<s>>
  ELSE LET k == CHOOSE i \in 1..Len(s) :
                  s[i] = sep /\ \A j \in 1..(i - 1) : s[j] # sep
       IN <<SubSeq(s, 1, k - 1)>> \o split(SubSeq(s, k + 1, Len(s)), sep)

\* int(s) of a digit string.
RECURSIVE int(_)
int(s) ==
  IF Len(s) = 0 THEN 0
  ELSE int(SubSeq(s, 1, Len(s) - 1)) * 10 + DigitVal(s[Len(s)])

\* str(n) of a non-negative integer: decimal, no leading zeros.
RECURSIVE str(_)
str(n) ==
  IF n < 10 THEN <<DigitChar(n)>>
  ELSE str(n \div 10) \o <<DigitChar(n % 10)>>

\* sep.join(parts)
RECURSIVE join(_, _)
join(sep, parts) ==
  IF Len(parts) = 0 THEN <<>>
  ELSE IF Len(parts) = 1 THEN parts[1]
  ELSE parts[1] \o sep \o join(sep, Tail(parts))

\* s.strip(): leading and trailing blanks removed.
RECURSIVE strip(_)
strip(s) ==
  IF Len(s) = 0 THEN s
  ELSE IF s[1] = " " THEN strip(Tail(s))
  ELSE IF s[Len(s)] = " " THEN strip(SubSeq(s, 1, Len(s) - 1))
  ELSE s

\* range(start, stop) as a list: empty when stop <= start.
py_range_short(start, stop) == [i \in 1..(stop - 1 - start) |-> start + i - 1]
py_range(start, stop) == [i \in 1..(stop - start) |-> start + i - 1]

\* parsed.get(key, "")
dict_get(parsed, key) == IF key \in DOMAIN parsed THEN parsed[key] ELSE <<>>

(***************************************************************************)
(* usaddress.tag(line): the tagger is a library outside the repository.    *)
(* Its outcome for a line is either RepeatedLabelError or a mapping from   *)
(* labels to component strings.  `tagger` holds its outcome for every line *)
(* of the instance; the outcome of each line is drawn in Init.  A line     *)
(* with no tokens ("") has no labelled component: the mapping is empty.    *)
(***************************************************************************)
RepeatedLabelError == [err |-> TRUE, parsed |-> <<>>]
Tagged(parsed) == [err |-> FALSE, parsed |-> parsed]

UnitAlphabet == {"0", "1", "3", Hyphen, EnDash, "A"}

RECURSIVE SeqsUpTo(_, _)
SeqsUpTo(S, n) ==
  IF n = 0 THEN {<<>>}
  ELSE LET shorter == SeqsUpTo(S, n - 1)
       IN shorter \cup {Append(s, x) : s \in {q \in shorter : Len(q) = n - 1}, x \in S}

UnitTokens(n) == SeqsUpTo(UnitAlphabet, n)

\* Tagged components other than the unit: a full address, a bare street, nothing.
FullBase ==
  [AddressNumber |-> <<"123">>, StreetNamePreDirectional |-> <<"N">>,
   StreetName |-> <<"Main">>, StreetNamePostType |-> <<"St">>,
   PlaceName |-> <<"Springfield">>, StateName |-> <<"IL">>,
   ZipCode |-> <<"60001">>]
StreetBase == [StreetName |-> <<"Oak">>, StreetNamePostDirectional |-> <<"E">>]

BaseTags == {FullBase, <<>>}

WithUnit(base, unit) ==
  IF unit = <<>> THEN base ELSE ("OccupancyIdentifier" :> unit) @@ base

TagOutcomes(line) ==
  IF line = "" THEN {Tagged(<<>>)}
  ELSE {RepeatedLabelError}
         \cup {Tagged(WithUnit(b, u)) : b \in BaseTags, u \in UnitTokens(MaxUnitLen)}

usaddress_tag(line) == tagger[line]

(***************************************************************************)
(* parse_address_expanded                                                  *)
(***************************************************************************)
Row(address, unit, city, state, zip, original) ==
  [Address |-> address, Unit |-> unit, City |-> city, State |-> state,
   ZIP |-> zip, Original |-> original]

\* The row returned when the tagger raises RepeatedLabelError.
RepeatedLabelRowsDropped(line) == <<>>
RepeatedLabelRows(line) == <<Row(<<>>, <<>>, <<>>, <<>>, <<>>, line)>>

street_of(parsed) ==
  strip(join(<<" ">>, <<dict_get(parsed, "StreetNamePreDirectional"),
                        dict_get(parsed, "StreetName"),
                        dict_get(parsed, "StreetNamePostType"),
                        dict_get(parsed, "StreetNamePostDirectional")>>))

full_address_of(parsed) ==
  strip(dict_get(parsed, "AddressNumber") \o <<" ">> \o street_of(parsed))

TaggedRows(line, parsed) ==
  LET full_address == full_address_of(parsed)
      unit == dict_get(parsed, "OccupancyIdentifier")
      city == dict_get(parsed, "PlaceName")
      state == dict_get(parsed, "StateName")
      zip_code == dict_get(parsed, "ZipCode")
      single == <<Row(full_address, unit, city, state, zip_code, line)>>
  IN IF unit # <<>> /\ contains_char(unit, Hyphen)
     THEN LET parts == split(replace(unit, EnDash, Hyphen), Hyphen)
          IN IF Len(parts) = 2 /\ isdigit(parts[1]) /\ isdigit(parts[2])
             THEN LET us == py_range(int(parts[1]), int(parts[2]) + 1)
                  IN [i \in 1..Len(us) |->
                        Row(full_address, str(us[i]), city, state, zip_code, line)]
             ELSE single
     ELSE single

parse_nonstring_as_row(line) ==
  IF ~isinstance_str(line) THEN <<Row(<<>>, <<>>, <<>>, <<>>, <<>>, line.v)>>
  ELSE LET r == usaddress_tag(line.v)
       IN IF r.err THEN RepeatedLabelRows(line.v)
          ELSE TaggedRows(line.v, r.parsed)

parse_address_expanded(line) ==
  IF ~isinstance_str(line) THEN <<>>
  ELSE LET r == usaddress_tag(line.v)
       IN IF r.err THEN RepeatedLabelRows(line.v)
          ELSE TaggedRows(line.v, r.parsed)

(***************************************************************************)
(* Remote data: the school list, the manifest and the address shards.      *)
(***************************************************************************)
SUPABASE_BASE_URL == "https://wrvonobxqimskkiajkft.supabase.co/storage/v1/object/public/data-splits/"

\* Series.astype(str) of one id: an int prints its digits, a float its
\* digits and ".0", a str is unchanged.
astype_str(x) == IF x.t = "float" THEN PyStr(x.v \o ".0") ELSE PyStr(x.v)

Site(id, label) == [EKEY_5 |-> id, LABEL |-> label]
ManifestEntry(bid, paths) ==
  [boundary_id |-> bid, file_paths_json |-> [t |-> "str", paths |-> paths]]

\* The cell of an unmatched row after the left merge.
NaNCell == [t |-> "float", paths |-> <<>>]
cell_isnull(c) == c.t = "float"

\* One address row of a shard; a coordinate is a number or null.
Num(n) == [null |-> FALSE, v |-> n]
NullNum == [null |-> TRUE, v |-> 0]
Address(lat, lon, full) == [LAT |-> lat, LON |-> lon, FullAddress |-> full]

\* Two non-empty address lines; what the tagger makes of them is drawn in Init.
LineA == "address line A"
LineB == "address line B"

Paths == {"a.parquet", "b.parquet", "c.parquet"}

\* The shards' contents: b repeats a row of a; c holds a row without latitude
\* and a row without an address.
ShardStore ==
  [p \in Paths |->
     CASE p = "a.parquet" -> <<Address(Num(0), Num(1), PyStr(LineA)),
                               Address(Num(1), Num(0), PyStr(LineB))>>
       [] p = "b.parquet" -> <<Address(Num(1), Num(0), PyStr(LineB)),
                               Address(Num(1), Num(1), PyStr(LineA))>>
       [] p = "c.parquet" -> <<Address(NullNum, Num(0), PyStr(LineA)),
                               Address(Num(0), Num(0), NaN)>>]

url_of(path) == <<SUPABASE_BASE_URL, path>>
read_parquet(url) == shards[url[2]]

(***************************************************************************)
(* Step 2: the left merge of schools and manifest on the join key.         *)
(***************************************************************************)
MergedRow(site, key, bid, cell) ==
  [EKEY_5 |-> site.EKEY_5, LABEL |-> site.LABEL, join_key |-> key,
   boundary_id |-> bid, file_paths_json |-> cell]

\* The merged rows of one school: one per manifest row with its key, in
\* manifest order; one row with null manifest columns when there is none.
\* manifest['join_key'] and schools['join_key'] of one row.
manifest_join_key_raw(entry) == entry.boundary_id
manifest_join_key(entry) == astype_str(entry.boundary_id)
schools_join_key(site) == astype_str(site.EKEY_5)

RECURSIVE matches_from(_, _, _)
matches_from(site, mf, j) ==
  IF j > Len(mf) THEN <<>>
  ELSE (IF manifest_join_key(mf[j]) = schools_join_key(site)
        THEN <<MergedRow(site, schools_join_key(site), mf[j].boundary_id,
                         mf[j].file_paths_json)>>
        ELSE <<>>) \o matches_from(site, mf, j + 1)

RECURSIVE pd_merge_left(_, _)
pd_merge_left(sc, mf) ==
  IF Len(sc) = 0 THEN <<>>
  ELSE LET m == matches_from(sc[1], mf, 1)
       IN (IF Len(m) = 0
           THEN <<MergedRow(sc[1], schools_join_key(sc[1]), NaN, NaNCell)>>
           ELSE m) \o pd_merge_left(Tail(sc), mf)

\* school_data_merged['file_paths_json'].isnull().all()
all_paths_null(merged) ==
  \A i \in 1..Len(merged) : cell_isnull(merged[i].file_paths_json)

(***************************************************************************)
(* load_address_data                                                       *)
(***************************************************************************)
\* df_list: the shards read, in url order; fail[i] says the i-th read raised.
RECURSIVE df_list_abort(_, _, _)
df_list_abort(urls, fail, i) ==
  IF i > Len(urls) \/ fail[i] THEN <<>>
  ELSE <<read_parquet(urls[i])>> \o df_list_abort(urls, fail, i + 1)

RECURSIVE df_list_from(_, _, _)
df_list_from(urls, fail, i) ==
  IF i > Len(urls) THEN <<>>
  ELSE (IF fail[i] THEN <<>> ELSE <<read_parquet(urls[i])>>)
         \o df_list_from(urls, fail, i + 1)

\* The st.warning calls: one per url whose read raised, in url order.
warnings_first_only(urls, fail, i) ==
  IF \E k \in 1..Len(urls) : fail[k]
  THEN <<[level |-> "warning", text |-> "Could not load data shard",
          arg |-> urls[CHOOSE k \in 1..Len(urls) : fail[k]][2]]>>
  ELSE <<>>

RECURSIVE warnings_from(_, _, _)
warnings_from(urls, fail, i) ==
  IF i > Len(urls) THEN <<>>
  ELSE (IF fail[i]
        THEN <<[level |-> "warning", text |-> "Could not load data shard",
                arg |-> urls[i][2]]>>
        ELSE <<>>) \o warnings_from(urls, fail, i + 1)

\* pd.concat(df_list, ignore_index=True)
RECURSIVE pd_concat(_)
pd_concat(dfs) == IF Len(dfs) = 0 THEN <<>> ELSE dfs[1] \o pd_concat(Tail(dfs))

\* What one uncached call returns and shows.  json.loads(file_paths_json)
\* is the list of paths the text holds.
load_address_data(cell, fail) ==
  LET file_urls == [i \in 1..Len(cell.paths) |-> url_of(cell.paths[i])]
  IN [ret |-> [table |-> IF Len(file_urls) = 0 THEN <<>>
                         ELSE pd_concat(df_list_from(file_urls, fail, 1))],
      warnings |-> warnings_from(file_urls, fail, 1)]

\* addresses_df.dropna(subset=[LAT, LON])
dropna(df) == SelectSeq(df, LAMBDA r : ~r.LAT.null /\ ~r.LON.null)

(***************************************************************************)
(* Step 9: the spatial filter.  A drawn shape is the set of lattice points *)
(* its polygon contains; Point(x, y) is <<x, y>>.                          *)
(***************************************************************************)
Point(x, y) == <<x, y>>
poly_contains(poly, point) == point \in poly
point_lat_lon(r) == Point(r.LAT.v, r.LON.v)
point_of(r) == Point(r.LON.v, r.LAT.v)

filter_addresses(df, polygons) ==
  SelectSeq(df, LAMBDA r : \E k \in 1..Len(polygons) :
                              poly_contains(polygons[k], point_of(r)))

\* Step 10: all_rows.extend(parse_address_expanded(addr)) over the column.
RECURSIVE parse_all(_)
parse_all(df) ==
  IF Len(df) = 0 THEN <<>>
  ELSE parse_address_expanded(df[1].FullAddress) \o parse_all(Tail(df))

(***************************************************************************)
(* The script run.                                                         *)
(***************************************************************************)
Msg(level, text, arg) == [level |-> level, text |-> text, arg |-> arg]

NoReturn == [table |-> <<>>]

\* Step 1: load_main_files() returns the two tables, or reports and stops.
LoadMainFiles ==
  /\ pc = "start"
  /\ \/ /\ pc' = "merge"
        /\ UNCHANGED msgs
     \/ /\ msgs' = msgs \o <<Msg("error", "Fatal Error: Could not load", ""),
                             Msg("error", "Details", ""),
                             Msg("error", "Solution", "")>>
        /\ pc' = "stopped"
  /\ UNCHANGED <<env, cache, school_data_merged, site_selected,
                 file_paths_json, load_ret, load_fail, addresses_df, features,
                 filtered_df, parsed_df, exc>>

\* Step 2: merge; stop when no row has a file_paths_json.  (Both tables
\* hold the joined columns, so the merge itself raises nothing.)
MergeData ==
  /\ pc = "merge"
  /\ school_data_merged' = pd_merge_left(schools, manifest)
  /\ IF all_paths_null(school_data_merged')
     THEN /\ msgs' = msgs \o <<Msg("error", "Data Merge Failed", ""),
                               Msg("error", "Check that the column", "EKEY_5")>>
          /\ pc' = "stopped"
     ELSE /\ pc' = "select"
          /\ UNCHANGED msgs
  /\ UNCHANGED <<env, cache, site_selected, file_paths_json, load_ret,
                 load_fail, addresses_df, features, filtered_df, parsed_df, exc>>

\* Steps 3 and 4: the selectbox returns one label of school_list; the
\* selected school is the first merged row with that label (.iloc[0]).
school_list == {school_data_merged[i].LABEL : i \in 1..Len(school_data_merged)}

selected_school(label) ==
  LET i == CHOOSE i \in 1..Len(school_data_merged) :
             /\ school_data_merged[i].LABEL = label
             /\ \A j \in 1..(i - 1) : school_data_merged[j].LABEL # label
  IN school_data_merged[i]

SelectSite ==
  /\ pc = "select"
  /\ \E label \in school_list :
       /\ site_selected' = label
       /\ file_paths_json' = selected_school(label).file_paths_json
  /\ pc' = "load"
  /\ UNCHANGED <<env, cache, school_data_merged, load_ret, load_fail,
                 addresses_df, features, filtered_df, parsed_df, msgs, exc>>

\* Step 5: load_address_data(file_paths_json) under st.cache_data.
\* json.loads of a float (the NaN of an unmatched row) raises TypeError,
\* which nothing catches.  A cached argument returns the stored frame and
\* replays the stored warnings without reading any shard.
LoadAddresses ==
  /\ pc = "load"
  /\ IF cell_isnull(file_paths_json)
     THEN /\ exc' = "TypeError"
          /\ pc' = "crashed"
          /\ UNCHANGED <<cache, load_ret, load_fail, addresses_df, msgs>>
     ELSE /\ IF file_paths_json.paths \in DOMAIN cache
             THEN /\ load_ret' = cache[file_paths_json.paths].ret
                  /\ msgs' = msgs \o cache[file_paths_json.paths].warnings
                  /\ load_fail' = <<>>
                  /\ UNCHANGED cache
             ELSE \E fail \in [1..Len(file_paths_json.paths) -> BOOLEAN] :
                    LET r == load_address_data(file_paths_json, fail)
                    IN /\ load_ret' = r.ret
                       /\ msgs' = msgs \o r.warnings
                       /\ load_fail' = fail
                       /\ cache' = (file_paths_json.paths :> r) @@ cache
          /\ addresses_df' = load_ret'.table
          /\ pc' = "check"
          /\ UNCHANGED exc
  /\ UNCHANGED <<env, school_data_merged, site_selected, file_paths_json,
                 features, filtered_df, parsed_df>>

\* Lines 196-210: stop on an empty frame, else drop rows without geo-data.
\* (The frame always has the LAT and LON columns: read_parquet is given them
\* and a shard without them fails to load.)
CheckAddresses ==
  /\ pc = "check"
  /\ IF Len(addresses_df) = 0
     THEN /\ msgs' = Append(msgs, Msg("error", "No address data found", site_selected))
          /\ pc' = "stopped"
          /\ UNCHANGED addresses_df
     ELSE /\ addresses_df' = dropna(addresses_df)
          /\ msgs' = Append(msgs, Msg("info", "Loaded addresses", site_selected))
          /\ pc' = "map"
  /\ UNCHANGED <<env, cache, school_data_merged, site_selected,
                 file_paths_json, load_ret, load_fail, features, filtered_df,
                 parsed_df, exc>>

\* Steps 7 and 8: the drawn shapes; stop when there is none.
no_features(f) == Len(f) = 0

DrawMap ==
  /\ pc = "map"
  /\ features' = map_data.all_drawings
  /\ IF no_features(features')
     THEN /\ msgs' = Append(msgs, Msg("info", "Tip: Use the tools", ""))
          /\ pc' = "stopped"
     ELSE /\ pc' = "filter"
          /\ UNCHANGED msgs
  /\ UNCHANGED <<env, cache, school_data_merged, site_selected,
                 file_paths_json, load_ret, load_fail, addresses_df,
                 filtered_df, parsed_df, exc>>

\* Step 9: keep the addresses inside any drawn shape.
FilterAddresses ==
  /\ pc = "filter"
  /\ filtered_df' = filter_addresses(addresses_df, features)
  /\ IF Len(filtered_df') = 0
     THEN /\ msgs' = Append(msgs, Msg("info", "No addresses found within the drawn area(s)", ""))
          /\ pc' = "done"
     ELSE /\ pc' = "parse"
          /\ UNCHANGED msgs
  /\ UNCHANGED <<env, cache, school_data_merged, site_selected,
                 file_paths_json, load_ret, load_fail, addresses_df, features,
                 parsed_df, exc>>

\* Step 10: parse the filtered addresses and offer the download.
ParseAddresses ==
  /\ pc = "parse"
  /\ parsed_df' = parse_all(filtered_df)
  /\ msgs' = Append(msgs, Msg("info", "Found mailable addresses", site_selected))
  /\ pc' = "done"
  /\ UNCHANGED <<env, cache, school_data_merged, site_selected,
                 file_paths_json, load_ret, load_fail, addresses_df, features,
                 filtered_df, exc>>

RunStart ==
  /\ pc = "start"
  /\ school_data_merged = <<>>
  /\ site_selected = ""
  /\ file_paths_json = NaNCell
  /\ load_ret = NoReturn
  /\ load_fail = <<>>
  /\ addresses_df = <<>>
  /\ features = <<>>
  /\ filtered_df = <<>>
  /\ parsed_df = <<>>
  /\ msgs = <<>>
  /\ exc = "none"

\* Any interaction reruns the script from the top: the widgets may hold new
\* drawings, the cache of load_address_data is kept.
Grid == {Point(x, y) : x \in 0..1, y \in 0..1}
ShapeAll == Grid
ShapeEast == {Point(1, 0), Point(1, 1)}
ShapeCorner == {Point(1, 0)}
ShapeOutside == {}
Shapes == {ShapeAll, ShapeEast, ShapeCorner, ShapeOutside}

MapData(drawings) == [all_drawings |-> drawings]
SampleMapData == {MapData(<<>>), MapData(<<ShapeCorner>>), MapData(<<ShapeOutside, ShapeEast>>)}

Rerun ==
  /\ pc \in {"done", "stopped", "crashed"}
  /\ map_data' \in SampleMapData
  /\ pc' = "start"
  /\ school_data_merged' = <<>>
  /\ site_selected' = ""
  /\ file_paths_json' = NaNCell
  /\ load_ret' = NoReturn
  /\ load_fail' = <<>>
  /\ addresses_df' = <<>>
  /\ features' = <<>>
  /\ filtered_df' = <<>>
  /\ parsed_df' = <<>>
  /\ msgs' = <<>>
  /\ exc' = "none"
  /\ UNCHANGED <<schools, manifest, shards, tagger, cache>>

NextRun ==
  \/ LoadMainFiles
  \/ MergeData
  \/ SelectSite
  \/ LoadAddresses
  \/ CheckAddresses
  \/ DrawMap
  \/ FilterAddresses
  \/ ParseAddresses

Next == NextRun \/ Rerun

(***************************************************************************)
(* Instances.  Every specification starts a session at the top of the      *)
(* script with a cold cache; they differ in the remote data and the user   *)
(* input they draw.                                                        *)
(***************************************************************************)
UnitOneToThree == <<"1", Hyphen, "3">>
SampleTaggers ==
  { (LineA :> Tagged(WithUnit(FullBase, UnitOneToThree))) @@ (LineB :> Tagged(StreetBase)),
    (LineA :> Tagged(WithUnit(FullBase, UnitOneToThree))) @@ (LineB :> RepeatedLabelError) }
SampleTagger == (LineA :> Tagged(WithUnit(FullBase, UnitOneToThree))) @@ (LineB :> Tagged(StreetBase))

Sites ==
  { Site(PyInt("1"), "Alpha"), Site(PyInt("2"), "Beta"), Site(PyStr("7"), "Gamma") }
Entries ==
  { ManifestEntry(PyStr("1"), <<"a.parquet", "b.parquet">>),
    ManifestEntry(PyFloat("2"), <<"c.parquet">>),
    ManifestEntry(PyInt("7"), <<>>) }

OneSchool == <<Site(PyInt("1"), "Alpha")>>
OneEntry(paths) == <<ManifestEntry(PyStr("1"), paths)>>
OneShard(rows) == [p \in Paths |-> IF p = "a.parquet" THEN rows ELSE <<>>]

Start(sc, mf, sh, md, tg) ==
  /\ schools = sc
  /\ manifest = mf
  /\ shards = sh
  /\ map_data = md
  /\ tagger = tg
  /\ cache = <<>>
  /\ RunStart

\* A session over the sample data: the manifest matches Alpha and Gamma.
Init ==
  \E sc \in SeqsUpTo(Sites, MaxSites), md \in SampleMapData, tg \in SampleTaggers :
    Start(sc, <<ManifestEntry(PyStr("1"), <<"a.parquet", "b.parquet">>),
                ManifestEntry(PyInt("7"), <<>>)>>, ShardStore, md, tg)

Spec == Init /\ [][Next]_vars

\* Every school list and manifest over the sample rows.
InitResolve ==
  \E sc \in SeqsUpTo(Sites, MaxSites), mf \in SeqsUpTo(Entries, MaxManifest) :
    Start(sc, mf, ShardStore, MapData(<<ShapeCorner>>), SampleTagger)

SpecResolve == InitResolve /\ [][NextRun]_vars

\* One school whose manifest row lists any shard paths.
InitLoad ==
  \E paths \in SeqsUpTo(Paths, MaxPaths) :
    Start(OneSchool, OneEntry(paths), ShardStore, MapData(<<ShapeCorner>>), SampleTagger)

SpecLoad == InitLoad /\ [][NextRun]_vars

\* One school with one shard of any addresses, and any drawings.
SampleAddressRows ==
  {Address(Num(y), Num(x), PyStr(LineB)) : x \in 0..1, y \in 0..1}
    \cup {Address(NullNum, Num(1), PyStr(LineB))}

InitFilter ==
  \E rows \in SeqsUpTo(SampleAddressRows, MaxRecords),
     drawings \in SeqsUpTo(Shapes, MaxShapes) :
    Start(OneSchool, OneEntry(<<"a.parquet">>), OneShard(rows), MapData(drawings),
          SampleTagger)

SpecFilter == InitFilter /\ [][NextRun]_vars

\* One school with one shard of one address: any value of the address cell
\* and any outcome of the tagger for it.
ParseLines == {"", LineA}
ParseInputs(lines) ==
  {<<NaN, SampleTagger>>, <<None, SampleTagger>>}
    \cup UNION {{<<PyStr(l), (l :> o)>> : o \in TagOutcomes(l)} : l \in lines}

InitParse ==
  \E in \in ParseInputs(ParseLines) :
    Start(OneSchool, OneEntry(<<"a.parquet">>),
          OneShard(<<Address(Num(0), Num(0), in[1])>>), MapData(<<ShapeAll>>), in[2])

SpecParse == InitParse /\ [][NextRun]_vars

(***************************************************************************)
(* Properties of parse_address_expanded (SpecParse: the shard holds one    *)
(* row, the drawn shape contains it, so the parsed frame is the parse of   *)
(* that row's address cell).                                               *)
(***************************************************************************)
ParseInput == shards["a.parquet"][1].FullAddress
Parsed == pc = "done" /\ Len(filtered_df) = 1
TagOf(line) == tagger[line.v]
UnitOf(line) == dict_get(TagOf(line).parsed, "OccupancyIdentifier")
EmptyRow(original) ==
  [Address |-> <<>>, Unit |-> <<>>, City |-> <<>>, State |-> <<>>,
   ZIP |-> <<>>, Original |-> original]

\* unit is a, sep, b with a and b non-empty digit strings.
IsRangeToken(unit, sep) ==
  \E k \in 2..(Len(unit) - 1) :
    /\ unit[k] = sep
    /\ \A i \in 1..Len(unit) : i # k => unit[i] \in Digits
RangeSepAt(unit, sep) == CHOOSE k \in 2..(Len(unit) - 1) : unit[k] = sep
RangeStart(unit, sep) == int(SubSeq(unit, 1, RangeSepAt(unit, sep) - 1))
RangeEnd(unit, sep) == int(SubSeq(unit, RangeSepAt(unit, sep) + 1, Len(unit)))

\* parsed_df is one row per integer of [a, b], ascending, the other fields
\* those tagged for the line.
ExpandedOver(a, b) ==
  /\ Len(parsed_df) = b - a + 1
  /\ \A i \in 1..Len(parsed_df) :
       /\ parsed_df[i].Unit = str(a + i - 1)
       /\ int(parsed_df[i].Unit) = a + i - 1
       /\ parsed_df[i].Address = parsed_df[1].Address
       /\ parsed_df[i].City = dict_get(TagOf(ParseInput).parsed, "PlaceName")
       /\ parsed_df[i].State = dict_get(TagOf(ParseInput).parsed, "StateName")
       /\ parsed_df[i].ZIP = dict_get(TagOf(ParseInput).parsed, "ZipCode")
       /\ parsed_df[i].Original = ParseInput.v

\* C1 as stated: a non-string input and the empty string both parse to no
\* row at all.
C1_Original ==
  Parsed /\ (~isinstance_str(ParseInput) \/ ParseInput = PyStr(""))
    => parsed_df = <<>>

\* C1 amended: a non-string input (None, NaN) parses to no row; the empty
\* string is tagged like any line and parses to exactly one row, all
\* structured fields empty and the original line "".
C1_NonStringEmpty ==
  Parsed =>
    /\ ~isinstance_str(ParseInput) => parsed_df = <<>>
    /\ ParseInput = PyStr("") => parsed_df = <<EmptyRow("")>>

\* C1 witness: a None address cell was parsed and gave no row.
C1_Witness == Parsed /\ ParseInput = None /\ parsed_df = <<>>

\* C2: every non-empty string line parses to at least one row, whatever the
\* tagger returns, and every row carries the line as its original.
C2_AtLeastOneRow ==
  Parsed /\ isinstance_str(ParseInput) /\ ParseInput.v # ""
    => /\ Len(parsed_df) >= 1
       /\ \A i \in 1..Len(parsed_df) : parsed_df[i].Original = ParseInput.v

\* C3: a tagged unit a-b with a <= b parses to the b-a+1 rows of the units
\* a..b in ascending order, all other fields shared.
C3_RangeExpanded ==
  Parsed /\ isinstance_str(ParseInput) /\ ~TagOf(ParseInput).err
         /\ IsRangeToken(UnitOf(ParseInput), Hyphen)
         /\ RangeStart(UnitOf(ParseInput), Hyphen) <= RangeEnd(UnitOf(ParseInput), Hyphen)
    => ExpandedOver(RangeStart(UnitOf(ParseInput), Hyphen),
                    RangeEnd(UnitOf(ParseInput), Hyphen))

\* C3 witness: the unit 01-3 of a fully tagged line was parsed into the
\* units 1, 2, 3.
C3_Witness ==
  /\ Parsed
  /\ isinstance_str(ParseInput)
  /\ ~TagOf(ParseInput).err
  /\ UnitOf(ParseInput) = <<"0", "1", Hyphen, "3">>
  /\ Len(parsed_df) = 3
  /\ parsed_df[1].Unit = <<"1">>
  /\ parsed_df[3].Unit = <<"3">>
  /\ parsed_df[2].Address = <<"123", " ", "N", " ", "Main", " ", "St">>

\* C4: a unit a, en dash, b is expanded exactly as a-b would be.
C4_EnDashExpanded ==
  Parsed /\ isinstance_str(ParseInput) /\ ~TagOf(ParseInput).err
         /\ IsRangeToken(UnitOf(ParseInput), EnDash)
         /\ RangeStart(UnitOf(ParseInput), EnDash) <= RangeEnd(UnitOf(ParseInput), EnDash)
    => ExpandedOver(RangeStart(UnitOf(ParseInput), EnDash),
                    RangeEnd(UnitOf(ParseInput), EnDash))

\* C5: when the tagger raises RepeatedLabelError the line parses to exactly
\* one row, every structured field empty, the original line kept, and no
\* exception ends the run.
C5_RepeatedLabelRow ==
  isinstance_str(ParseInput) /\ TagOf(ParseInput).err
    => /\ exc = "none"
       /\ pc # "crashed"
       /\ Parsed => parsed_df = <<EmptyRow(ParseInput.v)>>

\* C5 witness: a line the tagger rejected was parsed into its one row.
C5_Witness ==
  /\ Parsed
  /\ isinstance_str(ParseInput)
  /\ TagOf(ParseInput).err
  /\ Len(parsed_df) = 1
  /\ parsed_df[1].Original = LineA

(***************************************************************************)
(* Properties of load_address_data (SpecLoad: the selected school's        *)
(* manifest row lists any paths; every read may fail).                     *)
(***************************************************************************)
Loaded ==
  /\ pc \notin {"start", "merge", "select", "load", "crashed"}
  /\ ~cell_isnull(file_paths_json)
PathsAsked == file_paths_json.paths
FailedReads == {i \in 1..Len(load_fail) : load_fail[i]}
WarningsShown == SelectSeq(msgs, LAMBDA m : m.level = "warning")

\* The rows of the first n shards that were read, shard by shard.
RECURSIVE RowsOfReadShards(_)
RowsOfReadShards(n) ==
  IF n = 0 THEN <<>>
  ELSE RowsOfReadShards(n - 1)
         \o (IF load_fail[n] THEN <<>> ELSE shards[PathsAsked[n]])

\* C6: whatever reads fail, every path is read and the table returned is
\* the rows of the shards that loaded, in path order and in each shard's
\* row order, repeated rows kept.
C6_ConcatOfLoaded ==
  Loaded =>
    /\ Len(load_fail) = Len(PathsAsked)
    /\ load_ret.table = RowsOfReadShards(Len(PathsAsked))

\* C6 witness: of three shards the middle one failed; the rows of the
\* other two follow each other, the row they share twice.
C6_Witness ==
  /\ Loaded
  /\ PathsAsked = <<"a.parquet", "c.parquet", "b.parquet">>
  /\ load_fail = <<FALSE, TRUE, FALSE>>
  /\ Len(load_ret.table) = 4
  /\ load_ret.table[2] = load_ret.table[3]

\* C7 as stated: load returns, with the table, a list of failed paths as
\* long as the number of unreachable shards.
C7_Original ==
  Loaded =>
    /\ "failed" \in DOMAIN load_ret
    /\ Len(load_ret.failed) = Cardinality(FailedReads)

\* C7 amended: load returns the table alone; every unreachable shard is
\* reported by one warning naming it, in path order, so there are as many
\* warnings as unreachable shards; no path gives an empty table and no
\* warning.
C7_WarningPerFailedShard ==
  Loaded =>
    /\ DOMAIN load_ret = {"table"}
    /\ Len(WarningsShown) = Cardinality(FailedReads)
    /\ \A i \in FailedReads :
         WarningsShown[Cardinality({j \in FailedReads : j <= i})].arg = PathsAsked[i]
    /\ PathsAsked = <<>> => load_ret.table = <<>> /\ WarningsShown = <<>>

\* C7 witness: two of three shards failed and two warnings were shown.
C7_Witness ==
  /\ Loaded
  /\ PathsAsked = <<"a.parquet", "b.parquet", "c.parquet">>
  /\ load_fail = <<TRUE, FALSE, TRUE>>
  /\ Len(WarningsShown) = 2
  /\ WarningsShown[2].arg = "c.parquet"

(***************************************************************************)
(* Properties of the merge (SpecResolve: any school list and manifest).    *)
(***************************************************************************)
MainFilesFailed == \E i \in 1..Len(msgs) : msgs[i].text = "Fatal Error: Could not load"
MergeFatal == \E i \in 1..Len(msgs) : msgs[i].text = "Data Merge Failed"
MergeDone == pc \notin {"start", "merge"} /\ ~MainFilesFailed

\* The text an id prints as.
IdText(x) == IF x.t = "float" THEN x.v \o ".0" ELSE x.v
SiteMatched(i) ==
  \E j \in 1..Len(manifest) : IdText(schools[i].EKEY_5) = IdText(manifest[j].boundary_id)
SomeSiteMatched == \E i \in 1..Len(schools) : SiteMatched(i)

\* C8: the merge is fatal exactly when no school id equals a manifest
\* boundary_id as text; with one match the run goes on to the selector,
\* however many schools are unmatched.
C8_FatalIffNoMatch ==
  MergeDone =>
    /\ SomeSiteMatched => ~MergeFatal
    /\ ~SomeSiteMatched => MergeFatal /\ pc = "stopped"
    /\ pc = "select" => SomeSiteMatched

\* C8 witness: an int id matched a str boundary_id, another school matched
\* nothing, and the run reached the selector.
C8_Witness ==
  /\ pc = "select"
  /\ Len(schools) = 2
  /\ SiteMatched(1)
  /\ schools[1].EKEY_5.t # "str"
  /\ ~SiteMatched(2)
  /\ ~MergeFatal

\* C9: selecting a school without a manifest row loads an empty table and
\* raises nothing.
C9_UnmatchedSiteLoadsEmpty ==
  site_selected # "" /\ cell_isnull(file_paths_json)
    => /\ exc = "none"
       /\ pc # "crashed"
       /\ pc # "load" => load_ret.table = <<>> /\ addresses_df = <<>>

(***************************************************************************)
(* Properties of the filter (SpecFilter: any addresses, any drawings).     *)
(***************************************************************************)
InsideSome(r, polygons) ==
  \E k \in 1..Len(polygons) : <<r.LON.v, r.LAT.v>> \in polygons[k]

TipShown == \E i \in 1..Len(msgs) : msgs[i].text = "Tip: Use the tools"

\* C10: with shapes drawn, the filtered frame is the addresses whose point
\* (x = longitude, y = latitude) is inside some shape, in their order; with
\* none drawn the run stops before the filter: nothing is filtered, parsed
\* or offered.
C10_FilterByAnyPolygon ==
  /\ pc \in {"filter", "parse", "done"} =>
       features # <<>> /\ features = map_data.all_drawings
  /\ pc \in {"parse", "done"} =>
       filtered_df = SelectSeq(addresses_df, LAMBDA r : InsideSome(r, features))
  /\ map_data.all_drawings = <<>> =>
       /\ pc \notin {"filter", "parse", "done"}
       /\ filtered_df = <<>>
       /\ parsed_df = <<>>
  /\ TipShown => pc = "stopped" /\ map_data.all_drawings = <<>>

\* C10 witness: of two addresses the second, at x = 1, y = 0, is inside
\* one of two shapes; the first, at x = 0, y = 1, is inside none.
C10_Witness ==
  /\ pc = "done"
  /\ Len(features) = 2
  /\ Len(addresses_df) = 2
  /\ filtered_df = <<addresses_df[2]>>
  /\ addresses_df[2].LON.v = 1
  /\ addresses_df[2].LAT.v = 0
  /\ addresses_df[1].LON.v = 0
  /\ addresses_df[1].LAT.v = 1

====
